---- MODULE Spec2Model ----
(***************************************************************************)
(* Model of the instruction-to-action resolution and caching engine of     *)
(* lib/index.ts (class Stagehand): getKey, observe, cacheObservation, act  *)
(* and waitForSettledDom, together with the collaborators they call (the   *)
(* Cache of lib/cache, the in-document snapshot, the reasoning oracle and  *)
(* the Playwright locator API).                                            *)
(*                                                                         *)
(* Every await of the source is a suspension point and so an action        *)
(* boundary: an action is the synchronous code that runs from one await's  *)
(* completion to the next await.  The live document may change at any      *)
(* suspension point (DomChange).                                           *)
(***************************************************************************)
EXTENDS Integers, Sequences, FiniteSets, TLC

\* ------------------------------------------------------------------ bounds
NumInstr     == 1     \* distinct instruction texts
NumPaths     == 2     \* distinct structural locators (xpaths) of the document
MaxCmds      == 2     \* longest command list the oracle returns

Instructions == 1..NumInstr
Paths        == 1..NumPaths
ElementIds   == 1..NumPaths
Instances    == {1}   \* Stagehand instances (processes)
Slots        == {1}   \* calls in flight: one, the caller awaits each call

\* ----------------------------------------------------------- key derivation
\* crypto.createHash('sha256').update(operation).digest('hex'): a digest of
\* the text alone, modelled by a fixed mixing function into a key space
\* larger than the instruction corpus.
KeySpace == 64

getKey(operation) == (operation * 37 + 11) % KeySpace

Keys == {getKey(s) : s \in Instructions}

NoKey == KeySpace     \* no key: outside the key space

\* ------------------------------------------------------------ locator text
\* A locator string is "" or "xpath=<path>"; path 0 stands for the text
\* "undefined" that the template literal produces for a missing map entry.
Undefined == 0

EmptyString == [engine |-> "", path |-> Undefined]

\* `xpath=${path}`
Xpath(path) == [engine |-> "xpath", path |-> path]

\* JavaScript truthiness of a string: only "" is falsy
Truthy(str) == str # EmptyString

\* selectorMap[elementId], undefined when the snapshot has no such id
SelectorLookup(selectorMap, elementId) ==
    IF elementId \in DOMAIN selectorMap THEN selectorMap[elementId] ELSE Undefined

\* window.processElements(): the snapshot's selectorMap, one id per element
\* attached at the moment of the call, mapped to that element's xpath
ProcessElements(document) == [e \in document |-> e]

\* page.locator(str).first() resolves to an attached element of the document
Attached(document, str) == str.engine = "xpath" /\ str.path \in document

\* ------------------------------------------------------------ cache entries
OldSession == 0       \* id carried by entries written by earlier runs

NoObservation == [present |-> FALSE, result |-> EmptyString, id |-> 0]

ObservationEntry(result, id) == [present |-> TRUE, result |-> result, id |-> id]

EmptyObservations == [k \in Keys |-> NoObservation]

\* the observations table as an earlier run may have left it: empty, or
\* holding one entry, for the first instruction
PriorObservationTables ==
    {EmptyObservations}
      \cup {[EmptyObservations EXCEPT ![getKey(1)] = ObservationEntry(str, OldSession)] :
              str \in {EmptyString, Xpath(1)}}

\* Cache.readObservations(): the whole table, or {} when disabled
readObservations(isDisabled, file) == IF isDisabled THEN EmptyObservations ELSE file

\* Cache.writeObservations({key, value}): no-op when disabled, else upsert
writeObservations(isDisabled, file, key, value) ==
    IF isDisabled THEN file ELSE [file EXCEPT ![key] = value]

\* this.observations[key]?.result, "" standing for undefined as well
ObservationResult(obs, key) ==
    IF obs[key].present THEN obs[key].result ELSE EmptyString

\* ------------------------------------------------------ oracle (observation)
NoContent == 0        \* null or "" content
NONE      == -1       \* the literal 'NONE'

ObserveContents == {NoContent, NONE} \cup ElementIds

\* ------------------------------------------------------------ commands
\* A command is an object with the properties element (miss path) or locator
\* (hit path), method and args.  method is the name of a
\* Locator method; args is the argument list, kept by its shape only.
Primitives == {"click"}

\* the shapes a command's method and args take: well formed, an unknown
\* primitive, a malformed argument list
CommandShapes ==
    {[method |-> "click",  args |-> "list"],
     [method |-> "nosuch", args |-> "list"],
     [method |-> "click",  args |-> "malformed"]}

\* a property the object does not have reads as undefined
UndefinedLocator == [engine |-> "undefined", path |-> Undefined]

\* what the oracle answers: the target is an element id of the snapshot
OracleCommand(element, shape) ==
    [element |-> element, locator |-> UndefinedLocator,
     method |-> shape.method, args |-> shape.args]

\* what the actions table stores: the target is a locator string
StoredCommand(path, shape) ==
    [element |-> Undefined, locator |-> Xpath(path),
     method |-> shape.method, args |-> shape.args]

\* command['element'], command['locator'], command['method'], command['args']
\* of an empty array: every property is undefined
UndefinedCommand ==
    [element |-> Undefined, locator |-> UndefinedLocator,
     method |-> "undefined", args |-> "undefined"]

WellFormed == [method |-> "click", args |-> "list"]

\* the shapes of the commands of a list of n commands: at most one of them
\* is ill formed (the first ill-formed command ends the call)
ShapeLists(n) ==
    {shapes \in [1..n -> CommandShapes] :
        Cardinality({j \in 1..n : shapes[j] # WellFormed}) <= 1}

\* the element the j-th command of a list targets
Target(j) == ((j - 1) % NumPaths) + 1

\* the command lists of up to MaxCmds commands
OracleLists ==
    UNION {{[j \in 1..n |-> OracleCommand(Target(j), shapes[j])] : shapes \in ShapeLists(n)} :
             n \in 0..MaxCmds}

StoredLists ==
    UNION {{[j \in 1..n |-> StoredCommand(Target(j), shapes[j])] : shapes \in ShapeLists(n)} :
             n \in 0..MaxCmds}

\* a response is missing (null/undefined), one Command, or a list of Commands
Response(shape, cmds) == [shape |-> shape, cmds |-> cmds]

MissingResponse == Response("missing", <<>>)

ActResponses ==
    {MissingResponse}
      \cup {Response("single", q) : q \in {r \in OracleLists : Len(r) = 1}}
      \cup {Response("list", q) : q \in OracleLists}

\* the normalization as it would be if every result were wrapped, [res]: a
\* list becomes one command that is itself a list, with no method and no args
NormalizeWrapsLists(res) ==
    IF res.shape = "list" THEN <<UndefinedCommand>> ELSE res.cmds

\* the normalization as it would be if an empty list were kept as it is
NormalizeKeepsEmpty(res) == res.cmds

\* res.length ? res : [res]   (lines 313 and 349)
Normalize(res) ==
    IF res.shape = "list"
    THEN IF Len(res.cmds) # 0 THEN res.cmds ELSE <<UndefinedCommand>>
    ELSE res.cmds

\* locator[method](...args) can be called at all: method names a Locator
\* method and args can be spread
Invocable(command) == command.method \in Primitives /\ command.args = "list"

\* ------------------------------------------------------- the actions table
\* the stored result is JSON text; JSON.parse decodes the value it encodes
JSONtext(value) == [json |-> value]

JSONparse(result) == result.json

NoAction == [present |-> FALSE, result |-> JSONtext(MissingResponse), id |-> 0]

ActionEntry(result, sessionId) == [present |-> TRUE, result |-> result, id |-> sessionId]

EmptyActions == [k \in Keys |-> NoAction]

\* results an earlier run may have stored: one well-formed Command, or a list
\* of Commands of which only the first of several may be ill formed
PriorActionResults ==
    {Response("single", q) : q \in {r \in StoredLists : Len(r) = 1 /\ Invocable(r[1])}}
      \cup {Response("list", q) : q \in
              {r \in StoredLists : \A j \in DOMAIN r : j > 1 \/ Len(r) = 1 => Invocable(r[j])}}

\* the actions table as an earlier run may have left it: empty, or holding
\* one resolution, for the first instruction
PriorActionTables ==
    {EmptyActions}
      \cup {[EmptyActions EXCEPT ![getKey(1)] = ActionEntry(JSONtext(r), OldSession)] :
              r \in PriorActionResults}

\* Cache.readActions(): the whole table, or {} when disabled
readActions(isDisabled, file) == IF isDisabled THEN EmptyActions ELSE file

\* ------------------------------------------------------------------- runs
Run(isDisabled, observationsTable, actionsTable) ==
    [disabled |-> isDisabled, observationsFile |-> observationsTable,
     actionsFile |-> actionsTable]

StoredObservation == [EmptyObservations EXCEPT ![getKey(1)] =
                         ObservationEntry(Xpath(1), OldSession)]

\* the runs modelled: the disableCache option and what earlier runs left in
\* the two durable tables.  Caching enabled: nothing, or one entry in one of
\* the tables.  Caching disabled: nothing, or one stored observation.
Runs ==
    {Run(FALSE, t, EmptyActions) : t \in PriorObservationTables}
      \cup {Run(FALSE, EmptyObservations, t) : t \in PriorActionTables}
      \cup {Run(TRUE, t, EmptyActions) : t \in {EmptyObservations, StoredObservation}}

\* ------------------------------------------------------- document settle
\* the wait as it would be without the try/catch
waitForSettledDomRethrows(evaluated) == [threw |-> ~evaluated, logged |-> FALSE]

\* lines 129-135: the in-document wait either evaluates or fails; the catch
\* logs the failure and the method returns normally either way
waitForSettledDom(evaluated) == [threw |-> FALSE, logged |-> ~evaluated]

\* --------------------------------------------------------------- the state
VARIABLES
    document,          \* paths of the elements attached to the live page
    observationsFile,  \* durable observations table
    actionsFile,       \* durable actions table
    disabled,          \* [instance] cache.disabled
    observations,      \* [instance] this.observations, the in-memory mirror
    actions,           \* [instance] this.actions, the in-memory mirror
    id,                \* [instance] this.id
    resolved,          \* [instance][instruction] the key observe last returned, or NoKey
    call               \* [slot] the call in flight or last finished

vars == <<document, observationsFile, actionsFile, disabled, observations,
          actions, id, resolved, call>>

\* both namespaces, mirror and durable table, as instance i sees them
Caches(i) ==
    [observations |-> observations[i], actions |-> actions[i],
     observationsFile |-> observationsFile, actionsFile |-> actionsFile]

Count(seq, e) == Cardinality({j \in DOMAIN seq : seq[j] = e})

\* the call record of a slot with no call yet
IdleCall(i) ==
    [pc |-> "idle", inst |-> i, op |-> "none", instruction |-> 0, path |-> "none",
     selectorMap |-> ProcessElements({}), elementId |-> NoContent,
     locatorString |-> EmptyString,
     response |-> MissingResponse, commands |-> <<>>, index |-> 0, executed |-> <<>>,
     ret |-> "none", key |-> NoKey, error |-> "none",
     known |-> NoKey,   \* the key an earlier observe of the instruction returned

     trace |-> <<>>,
     console |-> "",    \* what the latest step of the call logged as an error

     before |-> [observations |-> EmptyObservations, actions |-> EmptyActions,
                 observationsFile |-> EmptyObservations, actionsFile |-> EmptyActions]]

Finished(c) == call[c].pc \in {"idle", "done", "error"}

\* fields every call starts from
NewCall(c, op, s) ==
    [IdleCall(call[c].inst) EXCEPT
        !.op = op, !.instruction = s, !.before = Caches(call[c].inst),
        !.known = resolved[call[c].inst][s]]

\* throw new Error(...) / a rejected await: the call ends with an error
Throw(r, error) == [r EXCEPT !.pc = "error", !.error = error]

Init ==
    /\ document \in SUBSET Paths
    /\ \E run \in Runs :
          /\ observationsFile = run.observationsFile
          /\ actionsFile = run.actionsFile
          /\ disabled = [i \in Instances |-> run.disabled]
    /\ observations = [i \in Instances |-> readObservations(disabled[i], observationsFile)]
    /\ actions = [i \in Instances |-> readActions(disabled[i], actionsFile)]
    /\ id = [i \in Instances |-> i]
    /\ resolved = [i \in Instances |-> [s \in Instructions |-> NoKey]]
    /\ call = [c \in Slots |-> IdleCall(1)]

\* ------------------------------------------------------------- environment
\* an element is attached to or detached from the live document
DomChange ==
    /\ \E p \in Paths :
          document' = IF p \in document THEN document \ {p} ELSE document \cup {p}
    /\ UNCHANGED <<observationsFile, actionsFile, disabled, observations, actions,
                   id, resolved, call>>

\* ------------------------------------------------------------------ observe
\* the lookup as it would be if it never found the stored locator
ObservationHitNever(obs, key) == FALSE

\* line 194: if (observationLocatorStr)
ObservationHit(obs, key) == Truthy(ObservationResult(obs, key))

\* the start of observe as it would be if the lookup read the durable table,
\* as other instances have left it, and not the mirror loaded at construction
ObserveStartReadsTable(c, s) ==
    /\ Finished(c)
    /\ LET key == getKey(s)
           new == NewCall(c, "observe", s)
       IN call' = [call EXCEPT ![c] =
              IF ObservationHit(observationsFile, key)
              THEN [new EXCEPT !.pc = "hit", !.path = "hit",
                               !.locatorString = ObservationResult(observationsFile, key)]
              ELSE [new EXCEPT !.pc = "snapshot", !.path = "miss"]]
    /\ UNCHANGED <<document, observationsFile, actionsFile, disabled, observations,
                   actions, id, resolved>>

\* lines 191-203 / 210: key, cache lookup, then the first await of the path
ObserveStart(c, s) ==
    /\ Finished(c)
    /\ LET i   == call[c].inst
           key == getKey(s)
           new == NewCall(c, "observe", s)
       IN call' = [call EXCEPT ![c] =
              IF ObservationHit(observations[i], key)
              THEN [new EXCEPT !.pc = "hit", !.path = "hit",
                               !.locatorString = ObservationResult(observations[i], key)]
              ELSE [new EXCEPT !.pc = "snapshot", !.path = "miss"]]
    /\ UNCHANGED <<document, observationsFile, actionsFile, disabled, observations,
                   actions, id, resolved>>

\* the hit path as it would be if a cached locator that is attached to
\* nothing sent the call on to the miss path, to resolve the instruction anew
ObserveHitSelfHealing(c) ==
    /\ call[c].pc = "hit"
    /\ LET i == call[c].inst
           s == call[c].instruction
           checked == [call[c] EXCEPT !.trace = Append(@, "validate")]
       IN IF Attached(document, call[c].locatorString)
          THEN /\ call' = [call EXCEPT ![c] =
                     [checked EXCEPT !.pc = "done", !.ret = "key", !.key = getKey(s)]]
               /\ resolved' = [resolved EXCEPT ![i][s] = getKey(s)]
          ELSE /\ call' = [call EXCEPT ![c] =
                     [call[c] EXCEPT !.pc = "snapshot", !.path = "miss"]]
               /\ UNCHANGED resolved
    /\ UNCHANGED <<document, observationsFile, actionsFile, disabled, observations,
                   actions, id>>

\* the hit path as it would be if a successful hit stored the locator again,
\* tagged with the id of this instance
ObserveHitRetags(c) ==
    /\ call[c].pc = "hit"
    /\ LET i == call[c].inst
           s == call[c].instruction
           checked == [call[c] EXCEPT !.trace = Append(@, "validate")]
       IN IF Attached(document, call[c].locatorString)
          THEN /\ call' = [call EXCEPT ![c] =
                     [checked EXCEPT !.pc = "done", !.ret = "key", !.key = getKey(s)]]
               /\ resolved' = [resolved EXCEPT ![i][s] = getKey(s)]
               /\ observations' = [observations EXCEPT ![i][getKey(s)] =
                     ObservationEntry(call[c].locatorString, id[i])]
               /\ observationsFile' =
                     writeObservations(disabled[i], observationsFile, getKey(s),
                                       ObservationEntry(call[c].locatorString, id[i]))
          ELSE /\ call' = [call EXCEPT ![c] = Throw(checked, "unattached")]
               /\ UNCHANGED <<resolved, observations, observationsFile>>
    /\ UNCHANGED <<document, actionsFile, disabled, actions, id>>

\* lines 205-207: expect(firstLocator).toBeAttached(), then return key
ObserveHit(c) ==
    /\ call[c].pc = "hit"
    /\ LET i == call[c].inst
           s == call[c].instruction
           checked == [call[c] EXCEPT !.trace = Append(@, "validate")]
       IN IF Attached(document, call[c].locatorString)
          THEN /\ call' = [call EXCEPT ![c] =
                     [checked EXCEPT !.pc = "done", !.ret = "key", !.key = getKey(s)]]
               /\ resolved' = [resolved EXCEPT ![i][s] = getKey(s)]
          ELSE /\ call' = [call EXCEPT ![c] = Throw(checked, "unattached")]
               /\ UNCHANGED resolved
    /\ UNCHANGED <<document, observationsFile, actionsFile, disabled, observations,
                   actions, id>>

\* the step as it would be if the oracle request were sent without awaiting
\* the snapshot: no selectorMap has been taken when the oracle is asked
ObserveSnapshotNotAwaited(c) ==
    /\ call[c].pc = "snapshot"
    /\ call[c].op = "observe"
    /\ call' = [call EXCEPT ![c].pc = "oracle"]
    /\ UNCHANGED <<document, observationsFile, actionsFile, disabled, observations,
                   actions, id, resolved>>

\* lines 210-240: the snapshot arrives and the oracle request is sent
ObserveSnapshot(c) ==
    /\ call[c].pc = "snapshot"
    /\ call[c].op = "observe"
    /\ call' = [call EXCEPT ![c].pc = "oracle",
                            ![c].selectorMap = ProcessElements(document),
                            ![c].trace = Append(@, "snapshot")]
    /\ UNCHANGED <<document, observationsFile, actionsFile, disabled, observations,
                   actions, id, resolved>>

\* the validation as it would be without the check for the 'NONE' sentinel
ObserveAnswerNoSentinel(r, content) ==
    LET answered == [r EXCEPT !.trace = Append(@, "oracle"), !.elementId = content]
    IN IF content = NoContent
       THEN Throw(answered, "no response")
       ELSE [answered EXCEPT !.pc = "attach",
                !.locatorString = Xpath(SelectorLookup(r.selectorMap, content))]

\* lines 242-269: the oracle's answer is validated and the locator built
ObserveAnswer(r, content) ==
    LET answered == [r EXCEPT !.trace = Append(@, "oracle"), !.elementId = content]
    IN IF content = NoContent
       THEN Throw(answered, "no response")
       ELSE IF content = NONE
       THEN [answered EXCEPT !.pc = "done", !.ret = "null"]
       ELSE [answered EXCEPT !.pc = "attach",
                !.locatorString = Xpath(SelectorLookup(r.selectorMap, content))]

ObserveOracle(c) ==
    /\ call[c].pc = "oracle"
    /\ call[c].op = "observe"
    /\ \E content \in ObserveContents :
          call' = [call EXCEPT ![c] = ObserveAnswer(call[c], content)]
    /\ UNCHANGED <<document, observationsFile, actionsFile, disabled, observations,
                   actions, id, resolved>>

\* the entry as it would be if it were not tagged with this.id
cacheObservationValueUntagged(result, sessionId) == ObservationEntry(result, OldSession)

\* the durable write as it would be if it were left to a later flush
cacheObservationFileDeferred(isDisabled, file, key, result, sessionId) == file

\* lines 280-287, cacheObservation: the entry it stores, and its two writes
cacheObservationValue(result, sessionId) == ObservationEntry(result, sessionId)

cacheObservationMirror(obs, key, result, sessionId) ==
    [obs EXCEPT ![key] = cacheObservationValue(result, sessionId)]

cacheObservationFile(isDisabled, file, key, result, sessionId) ==
    writeObservations(isDisabled, file, key, cacheObservationValue(result, sessionId))

\* the end of observe as it would be if cacheObservation ran before the
\* attachment check
AfterAttachWriteFirst(r, attached, obs, file, isDisabled, sessionId) ==
    LET key     == getKey(r.instruction)
        str     == r.locatorString
        checked == [r EXCEPT !.trace = Append(Append(@, "write"), "validate")]
    IN [call |-> IF attached
                 THEN [checked EXCEPT !.pc = "done", !.ret = "key", !.key = key]
                 ELSE Throw(checked, "unattached"),
        observations |-> cacheObservationMirror(obs, key, str, sessionId),
        observationsFile |-> cacheObservationFile(isDisabled, file, key, str, sessionId)]

\* lines 271-274: toBeAttached throws on a detached target; otherwise
\* cacheObservation runs and its key is returned.  The result is the call
\* record and the two copies of the observations table.
AfterAttach(r, attached, obs, file, isDisabled, sessionId) ==
    LET key     == getKey(r.instruction)
        str     == r.locatorString
        checked == [r EXCEPT !.trace = Append(@, "validate")]
    IN IF attached
       THEN [call |-> [checked EXCEPT !.pc = "done", !.ret = "key", !.key = key,
                                      !.trace = Append(@, "write")],
             observations |-> cacheObservationMirror(obs, key, str, sessionId),
             observationsFile |-> cacheObservationFile(isDisabled, file, key, str, sessionId)]
       ELSE [call |-> Throw(checked, "unattached"),
             observations |-> obs,
             observationsFile |-> file]

ObserveAttach(c) ==
    /\ call[c].pc = "attach"
    /\ LET i     == call[c].inst
           s     == call[c].instruction
           after == AfterAttach(call[c], Attached(document, call[c].locatorString),
                                observations[i], observationsFile, disabled[i], id[i])
       IN /\ call' = [call EXCEPT ![c] = after.call]
          /\ observations' = [observations EXCEPT ![i] = after.observations]
          /\ observationsFile' = after.observationsFile
          /\ resolved' = [resolved EXCEPT ![i][s] =
                             IF after.call.ret = "key" THEN after.call.key ELSE @]
    /\ UNCHANGED <<document, actionsFile, disabled, actions, id>>

\* ---------------------------------------------------------------------- act
\* the start of act as it would be without the opening settle: the call goes
\* straight on to resolve the instruction
ActStartUnsettled(c, s) ==
    /\ Finished(c)
    /\ call' = [call EXCEPT ![c] =
                   [NewCall(c, "act", s) EXCEPT !.pc = "snapshot", !.path = "miss"]]
    /\ UNCHANGED <<document, observationsFile, actionsFile, disabled, observations,
                   actions, id, resolved>>

\* line 298-299: act begins by awaiting waitForSettledDom
ActStart(c, s) ==
    /\ Finished(c)
    /\ call' = [call EXCEPT ![c] = [NewCall(c, "act", s) EXCEPT !.pc = "settle"]]
    /\ UNCHANGED <<document, observationsFile, actionsFile, disabled, observations,
                   actions, id, resolved>>

\* a completed waitForSettledDom, as the call record shows it
Settled(r, w) ==
    [r EXCEPT !.trace = Append(@, "settle"),
              !.console = IF w.logged THEN "error" ELSE ""]

\* act's locals outputString, selectorMap and response die with the call;
\* of the response only its shape is remembered
EndAct(r) ==
    [r EXCEPT !.selectorMap = ProcessElements({}),
              !.response = Response(r.response.shape, <<>>)]

\* line 328: the hit path returns as soon as the replay loop ends
AfterReplayLoop(r) == EndAct([r EXCEPT !.pc = "done", !.ret = "void"])

\* line 367: the miss path awaits waitForSettledDom after its loop
AfterExecuteLoop(r) == [r EXCEPT !.pc = "settle2"]

\* the for-of loop has run out of commands
LoopEnded(r) == r.pc # "error" /\ r.index > Len(r.commands)

\* the loop body as it would be if a command that cannot be invoked were
\* skipped instead of thrown on
InvokeSkipping(r, document_, str) ==
    LET command == r.commands[r.index]
    IN IF ~Invocable(command)
       THEN [r EXCEPT !.index = @ + 1]
       ELSE IF ~Attached(document_, str)
       THEN EndAct(Throw(r, "unattached"))
       ELSE [r EXCEPT !.trace = Append(@, "execute"),
                      !.executed = Append(@, command),
                      !.index = @ + 1]

\* the body of either for-of loop: locator[method](...args) on the target
\* str; a throw leaves the loop and the call
Invoke(r, document_, str) ==
    LET command == r.commands[r.index]
    IN IF ~Invocable(command)
       THEN EndAct(Throw(r, "command"))
       ELSE IF ~Attached(document_, str)
       THEN EndAct(Throw(r, "unattached"))
       ELSE [r EXCEPT !.trace = Append(@, "execute"),
                      !.executed = Append(@, command),
                      !.index = @ + 1]

\* the lookup of act as it would be if the two namespaces were one table:
\* an observation stored under the key counts as a cached action
AfterFirstSettleOneTable(r, acts, evaluated) ==
    LET w            == waitForSettledDom(evaluated)
        key          == getKey(r.instruction)
        cachedAction == acts[key]
        res          == JSONparse(cachedAction.result)
        replay       == [Settled(r, w) EXCEPT
                            !.pc = "replay", !.path = "hit", !.index = 1,
                            !.response = res,
                            !.commands = Normalize(res)]
    IN IF cachedAction.present \/ observations[r.inst][key].present
       THEN IF LoopEnded(replay) THEN AfterReplayLoop(replay) ELSE replay
       ELSE [Settled(r, w) EXCEPT !.pc = "snapshot", !.path = "miss"]

\* lines 299-315 / 331: the first settle completes, then the cache lookup;
\* a hit enters the replay loop, a miss requests the snapshot
AfterFirstSettle(r, acts, evaluated) ==
    LET w            == waitForSettledDom(evaluated)
        cachedAction == acts[getKey(r.instruction)]
        res          == JSONparse(cachedAction.result)
        replay       == [Settled(r, w) EXCEPT
                            !.pc = "replay", !.path = "hit", !.index = 1,
                            !.response = res,
                            !.commands = Normalize(res)]
    IN IF w.threw
       THEN EndAct(Throw(Settled(r, w), "settle"))
       ELSE IF cachedAction.present
       THEN IF LoopEnded(replay) THEN AfterReplayLoop(replay) ELSE replay
       ELSE [Settled(r, w) EXCEPT !.pc = "snapshot", !.path = "miss"]

ActSettle(c) ==
    /\ call[c].pc = "settle"
    /\ \E evaluated \in BOOLEAN :
          call' = [call EXCEPT ![c] =
                      AfterFirstSettle(call[c], actions[call[c].inst], evaluated)]
    /\ UNCHANGED <<document, observationsFile, actionsFile, disabled, observations,
                   actions, id, resolved>>

\* lines 315-328: one iteration of the cache-hit replay loop
ActReplay(c) ==
    /\ call[c].pc = "replay"
    /\ LET r     == [call[c] EXCEPT !.console = ""]
           after == Invoke(r, document, r.commands[r.index].locator)
       IN call' = [call EXCEPT ![c] =
              IF LoopEnded(after) THEN AfterReplayLoop(after) ELSE after]
    /\ UNCHANGED <<document, observationsFile, actionsFile, disabled, observations,
                   actions, id, resolved>>

\* lines 331-344: the snapshot arrives and the oracle request is sent
ActSnapshot(c) ==
    /\ call[c].pc = "snapshot"
    /\ call[c].op = "act"
    /\ call' = [call EXCEPT ![c].pc = "oracle",
                            ![c].selectorMap = ProcessElements(document),
                            ![c].trace = Append(@, "snapshot"),
                            ![c].console = ""]
    /\ UNCHANGED <<document, observationsFile, actionsFile, disabled, observations,
                   actions, id, resolved>>

\* lines 289-296, cacheAction: the mirror and the durable table after it
cacheActionMirror(acts, key, result, sessionId) ==
    [acts EXCEPT ![key] = ActionEntry(result, sessionId)]

cacheActionFile(isDisabled, file, key, result, sessionId) ==
    IF isDisabled THEN file ELSE [file EXCEPT ![key] = ActionEntry(result, sessionId)]

\* the end of the miss path as it would be with the call to cacheAction live
PersistActionLive(acts, file, isDisabled, key, result, sessionId) ==
    [actions |-> cacheActionMirror(acts, key, result, sessionId),
     actionsFile |-> cacheActionFile(isDisabled, file, key, result, sessionId)]

\* lines 364-365: "disable cache for now"; the call to cacheAction is
\* commented out, so the resolved commands leave both copies as they are
PersistAction(acts, file, isDisabled, key, result, sessionId) ==
    [actions |-> acts, actionsFile |-> file]

\* lines 350-367: where the execution loop stands once the call record is
\* `after`: still iterating, thrown, or ended, in which case lines 364-367
\* run.  The result is the call record and the two copies of the actions table.
ExecuteLoop(after, acts, file, isDisabled, sessionId) ==
    IF LoopEnded(after)
    THEN LET result == JSONtext(Response(after.response.shape, after.commands))
             kept   == PersistAction(acts, file, isDisabled,
                                     getKey(after.instruction), result, sessionId)
         IN [call |-> AfterExecuteLoop(after),
             actions |-> kept.actions, actionsFile |-> kept.actionsFile]
    ELSE [call |-> after, actions |-> acts, actionsFile |-> file]

\* lines 340-350: the oracle's response is normalized to a list and the
\* execution loop entered
ActAnswer(r, response) ==
    LET answered == [r EXCEPT !.trace = Append(@, "oracle"), !.response = response]
    IN IF response.shape = "missing"
       THEN EndAct(Throw(answered, "no response"))
       ELSE [answered EXCEPT !.pc = "execute", !.index = 1,
                !.commands = Normalize(response)]

ActOracle(c) ==
    /\ call[c].pc = "oracle"
    /\ call[c].op = "act"
    /\ \E response \in ActResponses :
          LET i     == call[c].inst
              after == ExecuteLoop(ActAnswer(call[c], response), actions[i],
                                   actionsFile, disabled[i], id[i])
          IN /\ call' = [call EXCEPT ![c] = after.call]
             /\ actions' = [actions EXCEPT ![i] = after.actions]
             /\ actionsFile' = after.actionsFile
    /\ UNCHANGED <<document, observationsFile, disabled, observations, id, resolved>>

\* lines 350-367: one iteration of the cache-miss execution loop
ActExecute(c) ==
    /\ call[c].pc = "execute"
    /\ LET i     == call[c].inst
           r     == [call[c] EXCEPT !.console = ""]
           path  == SelectorLookup(r.selectorMap, r.commands[r.index].element)
           after == ExecuteLoop(Invoke(r, document, Xpath(path)), actions[i],
                                actionsFile, disabled[i], id[i])
       IN /\ call' = [call EXCEPT ![c] = after.call]
          /\ actions' = [actions EXCEPT ![i] = after.actions]
          /\ actionsFile' = after.actionsFile
    /\ UNCHANGED <<document, observationsFile, disabled, observations, id, resolved>>

\* lines 367-368: the closing settle completes and act returns
AfterLastSettle(r, evaluated) ==
    LET w == waitForSettledDom(evaluated)
    IN IF w.threw
       THEN EndAct(Throw(Settled(r, w), "settle"))
       ELSE EndAct([Settled(r, w) EXCEPT !.pc = "done", !.ret = "void"])

ActSettleLast(c) ==
    /\ call[c].pc = "settle2"
    /\ \E evaluated \in BOOLEAN :
          call' = [call EXCEPT ![c] = AfterLastSettle(call[c], evaluated)]
    /\ UNCHANGED <<document, observationsFile, actionsFile, disabled, observations,
                   actions, id, resolved>>

\* ------------------------------------------------------------ specification
Next ==
    \/ DomChange
    \/ \E c \in Slots, s \in Instructions : ObserveStart(c, s)
    \/ \E c \in Slots : ObserveHit(c)
    \/ \E c \in Slots : ObserveSnapshot(c)
    \/ \E c \in Slots : ObserveOracle(c)
    \/ \E c \in Slots : ObserveAttach(c)
    \/ \E c \in Slots, s \in Instructions : ActStart(c, s)
    \/ \E c \in Slots : ActSettle(c)
    \/ \E c \in Slots : ActReplay(c)
    \/ \E c \in Slots : ActSnapshot(c)
    \/ \E c \in Slots : ActOracle(c)
    \/ \E c \in Slots : ActExecute(c)
    \/ \E c \in Slots : ActSettleLast(c)

Spec == Init /\ [][Next]_vars

\* -------------------------------------------------------- several instances
\* Instances that share the durable tables: each is a process with its own
\* mirrors and its own caller, so each has one slot, of the same number.
Fleet == {1, 2}

\* the constructor as it would be if it did not load the tables
ConstructedUnloaded(i, disableCache) ==
    [disabled     |-> disableCache,
     observations |-> EmptyObservations,
     actions      |-> EmptyActions]

\* lines 69-93, the constructor: the Cache is built with the disableCache
\* option and both mirrors are loaded from it, once
Constructed(i, disableCache) ==
    [disabled     |-> disableCache,
     observations |-> readObservations(disableCache, observationsFile),
     actions      |-> readActions(disableCache, actionsFile)]

FleetInit ==
    /\ document \in SUBSET Paths
    /\ observationsFile \in PriorObservationTables
    /\ actionsFile = EmptyActions
    /\ \E options \in [Fleet -> BOOLEAN] :
          /\ disabled = [i \in Fleet |-> Constructed(i, options[i]).disabled]
          /\ observations = [i \in Fleet |-> Constructed(i, options[i]).observations]
          /\ actions = [i \in Fleet |-> Constructed(i, options[i]).actions]
    /\ id = [i \in Fleet |-> i]
    /\ resolved = [i \in Fleet |-> [s \in Instructions |-> NoKey]]
    /\ call = [c \in Fleet |-> IdleCall(c)]

\* the process of instance i ends, at any point of its call (an exit or a
\* crash), and a fresh instance is constructed in its place
Construct(i) ==
    /\ \E disableCache \in BOOLEAN :
          LET new == Constructed(i, disableCache)
          IN /\ disabled' = [disabled EXCEPT ![i] = new.disabled]
             /\ observations' = [observations EXCEPT ![i] = new.observations]
             /\ actions' = [actions EXCEPT ![i] = new.actions]
    /\ resolved' = [resolved EXCEPT ![i] = [s \in Instructions |-> NoKey]]
    /\ call' = [call EXCEPT ![i] = IdleCall(i)]
    /\ UNCHANGED <<document, observationsFile, actionsFile, id>>

FleetNext ==
    \/ DomChange
    \/ \E i \in Fleet : Construct(i)
    \/ \E c \in Fleet, s \in Instructions : ObserveStart(c, s)
    \/ \E c \in Fleet : ObserveHit(c)
    \/ \E c \in Fleet : ObserveSnapshot(c)
    \/ \E c \in Fleet : ObserveOracle(c)
    \/ \E c \in Fleet : ObserveAttach(c)

FleetSpec == FleetInit /\ [][FleetNext]_vars

\* --------------------------------------------------------- overlapping calls
\* Two observe calls of one instance in flight together: the caller issues
\* the second without awaiting the first, so their steps interleave at the
\* awaits.
Overlapping == {1, 2}

OverlapInit ==
    /\ document \in SUBSET Paths
    /\ \E run \in {r \in Runs : r.actionsFile = EmptyActions} :
          /\ observationsFile = run.observationsFile
          /\ actionsFile = run.actionsFile
          /\ disabled = [i \in Instances |-> run.disabled]
    /\ observations = [i \in Instances |-> readObservations(disabled[i], observationsFile)]
    /\ actions = [i \in Instances |-> readActions(disabled[i], actionsFile)]
    /\ id = [i \in Instances |-> i]
    /\ resolved = [i \in Instances |-> [s \in Instructions |-> NoKey]]
    /\ call = [c \in Overlapping |-> IdleCall(1)]

OverlapNext ==
    \/ DomChange
    \/ \E c \in Overlapping, s \in Instructions : ObserveStart(c, s)
    \/ \E c \in Overlapping : ObserveHit(c)
    \/ \E c \in Overlapping : ObserveSnapshot(c)
    \/ \E c \in Overlapping : ObserveOracle(c)
    \/ \E c \in Overlapping : ObserveAttach(c)

OverlapSpec == OverlapInit /\ [][OverlapNext]_vars

\* ------------------------------------------------------------------ claims
OracleCalls(c) == Count(call[c].trace, "oracle")

Snapshots(c) == Count(call[c].trace, "snapshot")

\* the call of slot c takes a step
Stepped(c) == call'[c] # call[c]

\* the caches of the call's instance are as they were when the call began
CachesUntouched(c) == Caches(call[c].inst) = call[c].before

\* the entry observe stores for the call of slot c
Resolution(c) ==
    ObservationEntry(Xpath(SelectorLookup(call[c].selectorMap, call[c].elementId)),
                     id[call[c].inst])

\* an observe of an instruction that an earlier observe of this instance,
\* caching enabled, returned a key for
Repeated(c) ==
    /\ call[c].op = "observe"
    /\ call[c].known # NoKey
    /\ ~disabled[call[c].inst]

C1_State ==
    \A c \in Slots :
       Repeated(c) =>
          /\ call[c].path = "hit"
          /\ call[c].pc \in {"hit", "done", "error"}
          /\ OracleCalls(c) = 0
          /\ Snapshots(c) = 0
          /\ call[c].pc = "done" => call[c].ret = "key" /\ call[c].key = call[c].known
          /\ call[c].pc = "error" => call[c].error = "unattached"

C1_Step ==
    \A c \in Slots :
       (Repeated(c) /\ call[c].pc = "hit" /\ Stepped(c)
          /\ Attached(document, call[c].locatorString))
       => (call'[c].pc = "done" /\ call'[c].ret = "key"
             /\ call'[c].key = call[c].known)

\* C1: with caching enabled, once an observe of an instruction has returned a
\* key, every later observe of the same instruction takes the hit path, takes
\* no snapshot and asks the oracle nothing, and returns that same key whenever
\* the cached locator is attached when it is checked.
C1_HitSkipsOracle == []C1_State /\ [][C1_Step]_vars

C1_Witness ==
    \E c \in Slots : Repeated(c) /\ call[c].pc = "done" /\ call[c].ret = "key"

\* an observe that returned a key on the miss path
ResolvedOnMiss(c) ==
    /\ call[c].op = "observe"
    /\ call[c].pc = "done"
    /\ call[c].path = "miss"
    /\ call[c].ret = "key"

\* C2 as claimed: an observe that returns a key on the miss path returns
\* getKey of the instruction and leaves, in the mirror and in the durable
\* table, the entry built from selectorMap[elementId] of its own snapshot and
\* tagged with the session id.
C2_AlwaysPersisted ==
    \A c \in Slots :
       ResolvedOnMiss(c) =>
          /\ call[c].key = getKey(call[c].instruction)
          /\ observations[call[c].inst][call[c].key] = Resolution(c)
          /\ observationsFile[call[c].key] = Resolution(c)

\* C2 as amended: the mirror always holds the entry; the durable table holds
\* it when caching is enabled and is left as it was when caching is disabled.
C2_PersistedWhenEnabled ==
    \A c \in Slots :
       ResolvedOnMiss(c) =>
          /\ call[c].key = getKey(call[c].instruction)
          /\ Snapshots(c) = 1
          /\ call[c].elementId \in DOMAIN call[c].selectorMap
          /\ observations[call[c].inst][call[c].key] = Resolution(c)
          /\ IF disabled[call[c].inst]
             THEN observationsFile = call[c].before.observationsFile
             ELSE observationsFile[call[c].key] = Resolution(c)

C2_Witness ==
    \E c \in Slots : ResolvedOnMiss(c) /\ ~disabled[call[c].inst]

C3_State ==
    \A c \in Slots :
       call[c].op = "observe" =>
          /\ (OracleCalls(c) > 0 /\ call[c].elementId = NONE) =>
                /\ call[c].pc = "done"
                /\ call[c].ret = "null"
                /\ call[c].error = "none"
                /\ OracleCalls(c) = 1
                /\ CachesUntouched(c)
                /\ ~ObservationHit(observations[call[c].inst], getKey(call[c].instruction))
          /\ call[c].ret = "null" => call[c].elementId = NONE
          /\ (call[c].path = "miss" /\ Finished(c)) => OracleCalls(c) = 1

C3_Step ==
    \A c \in Slots :
       (call[c].op = "observe" /\ call[c].ret = "null" /\ Stepped(c)
          /\ call'[c].op = "observe" /\ call'[c].instruction = call[c].instruction)
       => (call'[c].path = "miss" /\ call'[c].pc = "snapshot")

\* C3: when the oracle answers NONE, observe returns null with no error, the
\* caches are as they were before the call and hold no usable entry for the
\* key, and an immediate repeat takes the miss path again; every finished
\* observe of the miss path has asked the oracle exactly once.
C3_NotFoundIsNull == []C3_State /\ [][C3_Step]_vars

C3_Witness ==
    \E c \in Slots :
       call[c].op = "observe" /\ call[c].pc = "done" /\ call[c].ret = "null"

\* C4: a call that failed because its target was attached to nothing leaves
\* both namespaces, mirrors and durable tables, as they were before the call.
C4_NoPoisonedWrites ==
    \A c \in Slots :
       (call[c].pc = "error" /\ call[c].error = "unattached") => CachesUntouched(c)

C4_Witness ==
    \E c \in Slots :
       /\ call[c].op = "observe"
       /\ call[c].path = "miss"
       /\ call[c].pc = "error"
       /\ call[c].error = "unattached"

C5_State ==
    /\ \A i \in Instances : actions[i] = readActions(disabled[i], actionsFile)
    /\ \A c \in Slots :
          call[c].op = "act" =>
             /\ call[c].path = "miss" =>
                   ~actions[call[c].inst][getKey(call[c].instruction)].present
             /\ call[c].path = "hit" =>
                   actions[call[c].inst][getKey(call[c].instruction)].present
             /\ (call[c].path = "miss" /\ call[c].pc = "done") =>
                   /\ OracleCalls(c) = 1
                   /\ call[c].executed = call[c].commands
                   /\ CachesUntouched(c)

C5_Step == actions' = actions /\ actionsFile' = actionsFile

\* C5: no step changes the actions mirror or the durable actions table, so
\* both stay as loaded; an act whose key they do not hold takes the miss path,
\* and when it returns it has asked the oracle once and executed every command.
C5_ActNeverPersists == []C5_State /\ [][C5_Step]_vars

C5_Witness ==
    \E c \in Slots :
       /\ call[c].op = "act"
       /\ call[c].path = "miss"
       /\ call[c].pc = "done"
       /\ Len(call[c].executed) > 0

\* C6 as claimed: every act that returns has a settle wait as the last thing
\* it did, after its last command.
C6_SettlesBeforeReturn ==
    \A c \in Slots :
       (call[c].op = "act" /\ call[c].pc = "done") =>
          /\ call[c].trace # <<>>
          /\ call[c].trace[Len(call[c].trace)] = "settle"
          /\ Count(call[c].trace, "execute") > 0

\* C7 as claimed: with caching disabled every observe and every act that
\* returns has asked the oracle.
C7_DisabledAlwaysAsks ==
    \A c \in Slots :
       (disabled[call[c].inst] /\ call[c].pc = "done") => OracleCalls(c) > 0

\* the oracle answered the act of slot c with an empty list
EmptyList(c) ==
    /\ call[c].op = "act"
    /\ call[c].path = "miss"
    /\ call[c].response = Response("list", <<>>)
    /\ OracleCalls(c) > 0

\* the oracle answered the call of slot c with nothing at all
NoAnswer(c) ==
    /\ OracleCalls(c) > 0
    /\ \/ call[c].op = "observe" /\ call[c].elementId = NoContent
       \/ call[c].op = "act" /\ call[c].path = "miss"
             /\ call[c].response.shape = "missing"

C8_State ==
    \A c \in Slots :
       /\ NoAnswer(c) =>
             /\ call[c].pc = "error"
             /\ call[c].error = "no response"
             /\ call[c].executed = <<>>
             /\ OracleCalls(c) = 1
             /\ CachesUntouched(c)
       /\ (EmptyList(c) /\ ~Finished(c)) =>
             /\ call[c].pc = "execute"
             /\ call[c].executed = <<>>
             /\ OracleCalls(c) = 1
             /\ CachesUntouched(c)
       /\ (call[c].op = "act" /\ call[c].pc = "done") => call[c].executed # <<>>

C8_Step ==
    \A c \in Slots :
       (EmptyList(c) /\ ~Finished(c) /\ Stepped(c)) =>
          /\ call'[c].pc = "error"
          /\ call'[c].executed = <<>>
          /\ Count(call'[c].trace, "oracle") = 1
          /\ Caches(call[c].inst)' = call[c].before

\* C8: an oracle answer that is missing, or an empty command list, ends the
\* call with an error, with no command executed, the caches as before the
\* call and the oracle asked once.
C8_EmptyAnswerIsError == []C8_State /\ [][C8_Step]_vars

C8_Witness ==
    \E c \in Slots :
       /\ call[c].op = "act"
       /\ call[c].pc = "error"
       /\ call[c].response.shape = "list"
       /\ call[c].commands = <<UndefinedCommand>>

\* the call record with what the step logged left out
Unlogged(r) == [r EXCEPT !.console = ""]

C9_State == \A c \in Slots : call[c].error # "settle"

C9_Step ==
    \A c \in Slots :
       (call[c].pc \in {"settle", "settle2"} /\ Stepped(c)) =>
          /\ Unlogged(call'[c]) =
                Unlogged(IF call[c].pc = "settle"
                         THEN AfterFirstSettle(call[c], actions[call[c].inst], TRUE)
                         ELSE AfterLastSettle(call[c], TRUE))
          /\ call'[c].pc # "error"
          /\ Caches(call[c].inst)' = Caches(call[c].inst)

\* C9: a settle wait that fails is logged and nothing else: the call goes on
\* exactly as it does when the wait succeeds, and never ends with the wait's
\* error.
C9_SettleFailureSwallowed == []C9_State /\ [][C9_Step]_vars

C9_Witness ==
    \E c \in Slots :
       call[c].op = "act" /\ call[c].console = "error" /\ call[c].pc = "done"

\* the commands of the call of slot c and the commands it has executed
C10_State ==
    \A c \in Slots :
       call[c].op = "act" =>
          /\ Len(call[c].executed) <= Len(call[c].commands)
          /\ call[c].executed = SubSeq(call[c].commands, 1, Len(call[c].executed))
          /\ \A j \in DOMAIN call[c].executed : Invocable(call[c].executed[j])
          /\ call[c].pc \in {"replay", "execute"} =>
                call[c].index = Len(call[c].executed) + 1
          /\ (call[c].pc \in {"settle2", "done"}) => call[c].executed = call[c].commands
          /\ call[c].error \in {"command", "unattached"} =>
                Len(call[c].executed) < Len(call[c].commands)
          /\ call[c].error = "command" =>
                ~Invocable(call[c].commands[Len(call[c].executed) + 1])
          /\ (\E j \in DOMAIN call[c].commands : ~Invocable(call[c].commands[j])) =>
                call[c].pc \in {"replay", "execute", "error"}

C10_Step ==
    \A c \in Slots :
       (call[c].pc \in {"replay", "execute"} /\ Stepped(c)) =>
          \/ /\ call'[c].pc = "error"
             /\ call'[c].executed = call[c].executed
          \/ /\ call'[c].pc # "error"
             /\ Invocable(call[c].commands[call[c].index])
             /\ call'[c].executed =
                   Append(call[c].executed, call[c].commands[call[c].index])

\* C10: the commands of an act are executed one by one in list order; at the
\* first command that cannot be invoked or whose target is detached the call
\* ends with an error, and no later command is executed.
C10_InOrderAndFailFast == []C10_State /\ [][C10_Step]_vars

C10_Witness ==
    \E c \in Slots :
       /\ call[c].op = "act"
       /\ call[c].error = "command"
       /\ Len(call[c].commands) > Len(call[c].executed) + 1

\* the locator the command at the head of the loop of call record r acts on
TargetOf(r) ==
    IF r.path = "hit"
    THEN r.commands[r.index].locator
    ELSE Xpath(SelectorLookup(r.selectorMap, r.commands[r.index].element))

\* the result of the call of slot c is one Command, bare or in a list
OneCommand(c) ==
    /\ call[c].op = "act"
    /\ call[c].response.shape \in {"single", "list"}
    /\ Len(call[c].commands) = 1

C11_State ==
    \A c \in Slots :
       call[c].op = "act" =>
          /\ call[c].response.shape = "single" => Len(call[c].commands) = 1
          /\ (call[c].pc \in {"replay", "execute"} /\ Len(call[c].response.cmds) = 1) =>
                /\ call[c].commands = call[c].response.cmds
                /\ call[c].commands = Normalize(Response("single", call[c].response.cmds))
                /\ call[c].commands = Normalize(Response("list", call[c].response.cmds))
          /\ (OneCommand(c) /\ call[c].pc \in {"settle2", "done"}) =>
                /\ call[c].executed = call[c].commands
                /\ Count(call[c].trace, "execute") = 1

C11_Step ==
    \A c \in Slots :
       (OneCommand(c) /\ call[c].pc \in {"replay", "execute"} /\ Stepped(c)) =>
          IF Invocable(call[c].commands[1]) /\ Attached(document, TargetOf(call[c]))
          THEN /\ call'[c].executed = call[c].commands
               /\ call'[c].pc = IF call[c].path = "hit" THEN "done" ELSE "settle2"
          ELSE /\ call'[c].executed = <<>>
               /\ call'[c].pc = "error"

\* C11: an action result that is one Command and one that is a list of that
\* one Command are normalized to the same one-element list, on the hit path
\* and on the miss path, and are executed by the same step: exactly one
\* interaction when the command can be invoked on an attached target, an
\* error and no interaction otherwise, whatever the shape was.
C11_Normalization == []C11_State /\ [][C11_Step]_vars

C11_Witness ==
    \E c \in Slots :
       /\ OneCommand(c)
       /\ call[c].response.shape = "single"
       /\ call[c].path = "hit"
       /\ call[c].pc = "done"
       /\ Len(call[c].executed) = 1

C12_State ==
    \A c \in Slots :
       LET i   == call[c].inst
           key == getKey(call[c].instruction)
       IN /\ (call[c].op = "observe" /\ call[c].path # "none") =>
                /\ call[c].path = "hit" <=> ObservationHit(call[c].before.observations, key)
                /\ actions[i] = call[c].before.actions
                /\ actionsFile = call[c].before.actionsFile
          /\ (call[c].op = "act" /\ call[c].path # "none") =>
                /\ call[c].path = "hit" <=> call[c].before.actions[key].present
                /\ observations[i] = call[c].before.observations
                /\ observationsFile = call[c].before.observationsFile

C12_Step ==
    \A c \in Slots :
       Stepped(c) =>
          /\ call'[c].op = "observe" => actions' = actions /\ actionsFile' = actionsFile
          /\ call'[c].op = "act" =>
                observations' = observations /\ observationsFile' = observationsFile

\* C12: the two namespaces are independent.  Whether an observe hits depends
\* on the observations mirror alone and no step of an observe changes the
\* actions mirror or table; whether an act hits depends on the actions mirror
\* alone and no step of an act changes the observations mirror or table.  So
\* an act of an instruction whose observation is stored is still a miss, and
\* an observe of an instruction whose action is stored is still a miss.
C12_IndependentNamespaces == []C12_State /\ [][C12_Step]_vars

C12_Witness ==
    \E c \in Slots :
       /\ call[c].op = "act"
       /\ call[c].path = "miss"
       /\ call[c].known # NoKey
       /\ ~disabled[call[c].inst]
       /\ ObservationHit(observations[call[c].inst], getKey(call[c].instruction))
       /\ observationsFile[getKey(call[c].instruction)].present

\* an observe of slot c that returned a key on the miss path, in an instance
\* with caching enabled
Learned(c) == ResolvedOnMiss(c) /\ ~disabled[call[c].inst]

\* the durable entry of the key of slot c is the one its instance wrote last:
\* no other instance has written the key since
Current(c) == observationsFile[call[c].key].id = id[call[c].inst]

\* C13 as claimed: whenever a fresh instance is constructed with caching
\* enabled, it loads, for the key of every observe that has returned a key on
\* the miss path, the entry that observe built.
C13_RoundTripAlways ==
    [][\A i \in Fleet :
          (Construct(i) /\ ~disabled'[i]) =>
             \A c \in Fleet :
                ResolvedOnMiss(c) => observations'[i][call[c].key] = Resolution(c)]_vars

C13_State ==
    \A c \in Fleet :
       Learned(c) =>
          /\ Count(call[c].trace, "write") = 1
          /\ call[c].trace[Len(call[c].trace)] = "write"
          /\ observationsFile[call[c].key].present
          /\ Truthy(observationsFile[call[c].key].result)
          /\ Current(c) => observationsFile[call[c].key] = Resolution(c)

C13_Step ==
    /\ \A i \in Fleet :
          (Construct(i) /\ ~disabled'[i]) =>
             /\ observations'[i] = observationsFile
             /\ observationsFile' = observationsFile
             /\ \A c \in Fleet :
                   (Learned(c) /\ Current(c)) =>
                      observations'[i][call[c].key] = Resolution(c)
    /\ observationsFile' # observationsFile =>
          \E c \in Fleet :
             /\ call[c].pc = "attach"
             /\ ~disabled[call[c].inst]
             /\ call'[c].pc = "done"
             /\ Count(call'[c].trace, "write") = 1
             /\ observationsFile' =
                   [observationsFile EXCEPT ![call'[c].key] = Resolution(c)]

\* C13 as amended: when the instance has caching enabled, the durable write
\* is made in the step that ends the observe, once and before it returns its
\* key; the durable table changes in no other step, so the entry survives the
\* end of the process at any point; and an instance constructed afterwards
\* with caching enabled loads the whole durable table, hence that entry,
\* unless another instance has written the same key in between.
C13_RoundTripWhenEnabled == []C13_State /\ [][C13_Step]_vars

C13_Witness ==
    \E c \in Fleet, j \in Fleet :
       /\ j # call[c].inst
       /\ Learned(c)
       /\ ~disabled[j]
       /\ call[j].pc = "idle"
       /\ observations[j][call[c].key] = Resolution(c)
       /\ observations[j][call[c].key].id = id[call[c].inst]

C14_State ==
    \A c \in Fleet :
       (call[c].op = "observe" /\ call[c].path # "none") =>
          /\ call[c].path = "hit" <=>
                ObservationHit(call[c].before.observations, getKey(call[c].instruction))
          /\ (call[c].path = "miss" /\ call[c].pc \notin {"snapshot", "oracle"}) =>
                OracleCalls(c) = 1

C14_Step ==
    \A i \in Fleet :
       observations'[i] # observations[i] =>
          \/ Construct(i)
          \/ /\ call[i].pc = "attach"
             /\ call'[i].pc = "done"
             /\ observations'[i] =
                   [observations[i] EXCEPT ![call'[i].key] = Resolution(i)]

\* C14: an instance loads its mirror when it is constructed and after that
\* only its own writes change it: a write by another instance changes the
\* durable table and that instance's mirror, never this one.  Whether an
\* observe hits is decided by the mirror alone, so an observe of an
\* instruction that only another instance has stored since is a miss, takes a
\* snapshot and asks the oracle.
C14_MirrorLoadedOnce == []C14_State /\ [][C14_Step]_vars

C14_Witness ==
    \E a \in Fleet :
       LET key == getKey(call[a].instruction)
       IN /\ call[a].op = "observe"
          /\ ~disabled[a]
          /\ call[a].path = "miss"
          /\ call[a].pc = "attach"
          /\ OracleCalls(a) = 1
          /\ ObservationHit(call[a].before.observationsFile, key)
          /\ call[a].before.observationsFile[key].id \in {id[b] : b \in Fleet \ {a}}
          /\ ~ObservationHit(observations[a], key)

\* every a of the trace comes before every b
Before(trace, a, b) ==
    \A j \in DOMAIN trace, k \in DOMAIN trace :
       (trace[j] = a /\ trace[k] = b) => j < k

\* a step b is taken only after a step a
Needs(trace, b, a) == Count(trace, b) > 0 => Count(trace, a) > 0

C15_State ==
    \A c \in Slots :
       LET trace == call[c].trace
       IN /\ call[c].path = "hit" => Snapshots(c) = 0 /\ OracleCalls(c) = 0
          /\ call[c].path = "miss" =>
                /\ Snapshots(c) <= 1 /\ OracleCalls(c) <= 1
                /\ Before(trace, "snapshot", "oracle")
                /\ Before(trace, "oracle", "validate")
                /\ Before(trace, "oracle", "execute")
                /\ Before(trace, "validate", "write")
                /\ Needs(trace, "oracle", "snapshot")
                /\ Needs(trace, "validate", "oracle")
                /\ Needs(trace, "execute", "oracle")
                /\ Needs(trace, "write", "validate")
                /\ call[c].pc = "oracle" => Snapshots(c) = 1 /\ OracleCalls(c) = 0
                /\ call[c].pc \in {"attach", "execute", "settle2"} => OracleCalls(c) = 1
          /\ call[c].op = "observe" =>
                Count(trace, "execute") = 0 /\ Count(trace, "settle") = 0
          /\ call[c].op = "act" =>
                Count(trace, "validate") = 0 /\ Count(trace, "write") = 0

C15_Step ==
    \A c \in Slots :
       (Stepped(c) /\ ~Finished(c)) =>
          /\ Len(call'[c].trace) >= Len(call[c].trace)
          /\ SubSeq(call'[c].trace, 1, Len(call[c].trace)) = call[c].trace

\* C15: the steps of one call are taken one after the other.  On a miss the
\* one snapshot precedes the one oracle query, the oracle's answer precedes
\* every validation and every command execution, and observe writes the cache
\* only after the validation; on a hit no snapshot is taken and the oracle is
\* not asked.
C15_StrictSequence == []C15_State /\ [][C15_Step]_vars

C15_Witness ==
    \E c \in Slots :
       /\ call[c].op = "observe"
       /\ call[c].path = "miss"
       /\ call[c].trace = <<"snapshot", "oracle", "validate", "write">>

C16_State ==
    \A i \in Instances :
       ~disabled[i] => observations[i] = observationsFile

C16_Step ==
    \A i \in Instances :
       (~disabled[i] /\ (observations'[i] # observations[i]
                           \/ observationsFile' # observationsFile)) =>
          \E c \in Overlapping :
             /\ call[c].inst = i
             /\ call[c].pc = "attach"
             /\ call'[c].pc = "done"
             /\ observations'[i] =
                   [observations[i] EXCEPT ![call'[c].key] = Resolution(c)]
             /\ observationsFile' =
                   [observationsFile EXCEPT ![call'[c].key] = Resolution(c)]

\* C16: with caching enabled the mirror of an instance and the durable table
\* hold the same entries in every state, also while two observe calls of the
\* instance are in flight together: the mirror and the table change only in
\* the step that ends an observe, both in that one step, under the same key
\* and to the same entry.
C16_MirrorConsistent == []C16_State /\ [][C16_Step]_vars

\* both calls began before either wrote, and both wrote the same key
C16_Witness ==
    \E c \in Overlapping, d \in Overlapping :
       /\ c # d
       /\ Learned(c) /\ Learned(d)
       /\ call[c].key = call[d].key
       /\ ~call[c].before.observations[call[c].key].present
       /\ ~call[d].before.observations[call[d].key].present
       /\ Resolution(c) # Resolution(d)
       /\ observations[call[c].inst][call[c].key] = Resolution(d)

\* the locator the mirror of the instance of slot c holds for instruction s
Cached(c, s) == ObservationResult(observations[call[c].inst], getKey(s))

C17_State ==
    \A c \in Slots :
       (call[c].op = "observe" /\ call[c].path = "hit") =>
          /\ Snapshots(c) = 0 /\ OracleCalls(c) = 0
          /\ call[c].locatorString = Cached(c, call[c].instruction)
          /\ Truthy(Cached(c, call[c].instruction))
          /\ CachesUntouched(c)
          /\ call[c].pc = "error" =>
                call[c].error = "unattached" /\ call[c].trace = <<"validate">>

C17_Step ==
    \A c \in Slots :
       /\ (call[c].pc = "hit" /\ Stepped(c)
              /\ ~Attached(document, Cached(c, call[c].instruction))) =>
             /\ call'[c].pc = "error"
             /\ call'[c].error = "unattached"
             /\ observations' = observations
             /\ observationsFile' = observationsFile
       /\ (Finished(c) /\ Stepped(c) /\ call'[c].op = "observe"
              /\ Truthy(Cached(c, call'[c].instruction))) =>
             /\ call'[c].pc = "hit"
             /\ call'[c].path = "hit"
             /\ call'[c].locatorString = Cached(c, call'[c].instruction)

\* C17: an observe whose instruction has a cached locator takes the hit path
\* with that locator; if the locator is attached to nothing when it is
\* checked, the call ends with an error, having taken no snapshot and asked
\* the oracle nothing, and leaves the entry as it was.  So the next observe of
\* the instruction takes the hit path with the same locator and fails in the
\* same way while no element matches it.
C17_StaleNeverHealed == []C17_State /\ [][C17_Step]_vars

C17_Witness ==
    \E c \in Slots :
       /\ call[c].op = "observe"
       /\ call[c].path = "hit"
       /\ call[c].pc = "error"
       /\ call[c].known # NoKey
       /\ Truthy(Cached(c, call[c].instruction))

\* the table holds an entry with a non-empty result under key k
Holds(table, k) == table[k].present /\ Truthy(table[k].result)

C18_State ==
    \A c \in Slots :
       /\ call[c].path = "hit" => Count(call[c].trace, "write") = 0
       /\ Count(call[c].trace, "write") > 0 =>
             ~Holds(call[c].before.observations, getKey(call[c].instruction))

C18_Step ==
    \A i \in Instances, k \in Keys :
       /\ Holds(observations[i], k) => observations'[i][k] = observations[i][k]
       /\ Holds(observationsFile, k) => observationsFile'[k] = observationsFile[k]

\* C18: when the calls of an instance follow one another, an entry with a
\* non-empty result, once in the mirror or in the durable table, is never
\* changed or removed by a later step of an observe or an act: the only write
\* is made by an observe that began with no such entry under its key, and an
\* observe that hits returns or fails without writing.
C18_WriteOnce == []C18_State /\ [][C18_Step]_vars

C18_Witness ==
    \E c \in Slots :
       /\ call[c].op = "observe"
       /\ call[c].path = "hit"
       /\ call[c].pc = "done"
       /\ call[c].known # NoKey
       /\ observations[call[c].inst][call[c].key].id = id[call[c].inst]
       /\ observations[call[c].inst][call[c].key] =
             call[c].before.observations[call[c].key]

C19_State ==
    \A c \in Slots :
       call[c].op = "act" =>
          /\ call[c].pc = "settle" => call[c].path = "none" /\ call[c].trace = <<>>
          /\ (call[c].pc # "settle") =>
                /\ call[c].trace # <<>>
                /\ call[c].trace[1] = "settle"
          /\ call[c].path = "none" =>
                /\ Snapshots(c) = 0
                /\ call[c].executed = <<>>
                /\ call[c].commands = <<>>

C19_Step ==
    \A c \in Slots :
       /\ (Finished(c) /\ Stepped(c) /\ call'[c].op = "act") =>
             /\ call'[c].pc = "settle"
             /\ call'[c].path = "none"
             /\ call'[c].trace = <<>>
       /\ (call[c].op = "act" /\ call[c].pc = "settle" /\ Stepped(c)) =>
             /\ call'[c].trace = <<"settle">>
             /\ call'[c].executed = <<>>

\* C19: an act begins by waiting for the document to settle.  Until that
\* wait has completed, with or without success, the call has not looked up
\* the action cache, taken a snapshot or executed a command; the first step
\* of every act, on the hit path and on the miss path, is the settle.
C19_SettlesFirst == []C19_State /\ [][C19_Step]_vars

C19_Witness ==
    \E c \in Slots :
       /\ call[c].op = "act"
       /\ call[c].path = "hit"
       /\ call[c].trace = <<"settle", "execute">>

====
